---- MODULE Spec2Model ----
(***************************************************************************)
(* Model of src/lib/plugins/addResizedColumns.ts: the column-resizing      *)
(* plugin (addResizedColumns) and the table-filter plugin (useTableFilter, *)
(* getFilteredRows, textPrefixFilter).                                     *)
(*                                                                         *)
(* JavaScript numbers are modelled as exact rationals together with the    *)
(* special values undefined, NaN and +/-Infinity; IEEE rounding of the     *)
(* proportional arithmetic is outside the model.                           *)
(***************************************************************************)
EXTENDS Integers, Sequences, FiniteSets, TLC

(***************************************************************************)
(* Bounds of the model.                                                    *)
(***************************************************************************)
MaxDrags == 1
MaxPointerDrags == 2

(***************************************************************************)
(* JavaScript values: undefined, NaN, +/-Infinity and finite numbers n/d   *)
(* (d > 0, lowest terms).                                                  *)
(***************************************************************************)
Undefined == <<"undefined">>
NaN == <<"NaN">>
Infinity(s) == <<"inf", s>>

RECURSIVE GCD(_, _)
GCD(m, n) == IF n = 0 THEN m ELSE GCD(n, m % n)

Abs(n) == IF n < 0 THEN -n ELSE n
Sgn(n) == IF n < 0 THEN -1 ELSE IF n = 0 THEN 0 ELSE 1

Rat(n, d) ==
    LET g == GCD(Abs(n), Abs(d))
        s == Sgn(d)
    IN  <<"num", (s * n) \div g, (s * d) \div g>>

Num(n) == <<"num", n, 1>>

IsNum(v) == v[1] = "num"
IsInf(v) == v[1] = "inf"
IsUndefined(v) == v = Undefined
SignOf(v) == IF IsNum(v) THEN Sgn(v[2]) ELSE v[2]

\* a + b on JavaScript numbers (undefined coerces to NaN)
Add(a, b) ==
    IF IsNum(a) /\ IsNum(b) THEN Rat(a[2] * b[3] + b[2] * a[3], a[3] * b[3])
    ELSE IF IsInf(a) /\ IsNum(b) THEN a
    ELSE IF IsNum(a) /\ IsInf(b) THEN b
    ELSE IF IsInf(a) /\ IsInf(b) /\ a = b THEN a
    ELSE NaN

\* -a
Neg(a) ==
    IF IsNum(a) THEN Rat(-a[2], a[3])
    ELSE IF IsInf(a) THEN Infinity(-a[2])
    ELSE NaN

\* a - b
Sub(a, b) == Add(a, Neg(b))

\* a * b
Mul(a, b) ==
    IF IsNum(a) /\ IsNum(b) THEN Rat(a[2] * b[2], a[3] * b[3])
    ELSE IF (IsNum(a) \/ IsInf(a)) /\ (IsNum(b) \/ IsInf(b))
         THEN IF SignOf(a) * SignOf(b) = 0 THEN NaN
              ELSE Infinity(SignOf(a) * SignOf(b))
    ELSE NaN

\* a / b: 0/0 is NaN, x/0 is +/-Infinity
Div(a, b) ==
    IF IsNum(a) /\ IsNum(b)
    THEN IF b[2] = 0
         THEN IF a[2] = 0 THEN NaN ELSE Infinity(Sgn(a[2]))
         ELSE Rat(a[2] * b[3], a[3] * b[2])
    ELSE IF IsInf(a) /\ IsNum(b) THEN Infinity(IF b[2] < 0 THEN -a[2] ELSE a[2])
    ELSE IF IsNum(a) /\ IsInf(b) THEN Num(0)
    ELSE NaN

\* a floor that was left out: the width itself
Max0_NoFloor(a) == a

\* Math.max(0, a)
Max0(a) ==
    IF IsNum(a) THEN (IF a[2] < 0 THEN Num(0) ELSE a)
    ELSE IF IsInf(a) THEN (IF a[2] < 0 THEN Num(0) ELSE a)
    ELSE NaN

\* sum(nums): nums.reduce((a, b) => a + b, 0)
RECURSIVE sum(_)
sum(nums) == IF nums = <<>> THEN Num(0) ELSE Add(sum(SubSeq(nums, 1, Len(nums) - 1)), nums[Len(nums)])

(***************************************************************************)
(* Column resizing: addResizedColumns.                                     *)
(*                                                                         *)
(* The header row holds two flat header cells "a" and "b" (cell id =       *)
(* column id) and one group header cell "g" over the columns <<a, b>>.     *)
(***************************************************************************)
ColumnIds == {"a", "b"}
HeaderCells == {"a", "b", "g"}
IsGroupHeaderCell(cell) == cell = "g"
IsFlatHeaderCell(cell) == cell # "g"
\* cell.ids of a group header cell; the id of a flat one
CellIds(cell) == IF IsGroupHeaderCell(cell) THEN <<"a", "b">> ELSE <<cell>>
IdSet(cell) == {CellIds(cell)[i] : i \in 1..Len(CellIds(cell))}

\* rendered widths (node.clientWidth) and pointer coordinates tried
ClientWidths == {0, 1, 2}
Coords == {0, 2}
EventClasses == {"mouse", "touch", "other"}
\* the classes of the events a window move/end listener receives
PointerClasses == {"mouse", "touch"}

VARIABLES
    columnsWidthState,    \* [current, start]: column id -> width or undefined
    dragStartXPosForId,   \* header cell id -> coordinate or undefined
    nodeForId,            \* header cell id -> its mounted node or undefined
    windowListeners,      \* set of <<event type, header cell>> registered on window
    lastEvent,            \* the drag handler that ran last, if no other handler ran
                          \* since: [op, cell, x, rendered]
    gesture,              \* <<"drag", cell, w, x0>> while only drag-moves of a flat
                          \* cell followed its drag-start, else <<"none">>
    dragCount             \* number of drag-starts handled so far

resizeVars == <<columnsWidthState, dragStartXPosForId, nodeForId, windowListeners,
                lastEvent, gesture, dragCount>>

\* the stores of the table filter
VARIABLES
    columnSetup,           \* column id -> its setup
    includeHiddenColumns,  \* the plugin configuration's flag
    rows,                  \* $rows: the value of the store deriveRows is given
    filterValue,           \* pluginState.filterValue
    preFilteredRows,       \* pluginState.preFilteredRows
    filteredRows,          \* the value of the derived store deriveRows returns
    tableCellMatches,      \* the match map: <<row id, column id>> -> BOOLEAN
    bodyCellProps          \* props of the 'tbody.tr.td' hook, per rendered cell

filterVars == <<columnSetup, includeHiddenColumns, rows, filterValue, preFilteredRows,
                filteredRows, tableCellMatches, bodyCellProps>>

Node(cell) == <<"node", cell>>

NoGesture == <<"none">>
NoneRendered == [id \in ColumnIds |-> 0]
NoEvent == [op |-> "none", cell |-> "a", x |-> 0, rendered |-> NoneRendered]

MoveType(class) == IF class = "mouse" THEN "mousemove" ELSE "touchmove"
EndType(class) == IF class = "mouse" THEN "mouseup" ELSE "touchend"

\* getDragXPos(event); an event is [class, x]
getDragXPos(event) ==
    IF event.class = "mouse" THEN Num(event.x)
    ELSE IF event.class = "touch" THEN Num(event.x)
    ELSE Num(0)

InitResize ==
    /\ columnsWidthState = [current |-> [id \in ColumnIds |-> Undefined],
                            start |-> [id \in ColumnIds |-> Undefined]]
    /\ dragStartXPosForId = [c \in HeaderCells |-> Undefined]
    /\ nodeForId = [c \in HeaderCells |-> Undefined]
    /\ windowListeners = {}
    /\ lastEvent = NoEvent
    /\ gesture = NoGesture
    /\ dragCount = 0

\* a dragStart that snapshots the first affected id only
DragStartSnapshot_FirstIdOnly(cell, state) ==
    [id \in ColumnIds |->
        IF id = CellIds(cell)[1] THEN state.current[id] ELSE state.start[id]]

\* the start map written by dragStart's columnsWidthState.update
DragStartSnapshot(cell, state) ==
    [id \in ColumnIds |->
        IF id \in IdSet(cell) THEN state.current[id] ELSE state.start[id]]

\* dragStart(event) of the hook of `cell`
DragStart(cell, event, targetIsNull) ==
    /\ IF targetIsNull
       THEN /\ lastEvent' = NoEvent
            /\ gesture' = NoGesture
            /\ UNCHANGED <<columnsWidthState, dragStartXPosForId, nodeForId,
                           windowListeners, dragCount>>
       ELSE /\ dragCount' = dragCount + 1
            /\ dragStartXPosForId' =
                   [dragStartXPosForId EXCEPT ![cell] = getDragXPos(event)]
            /\ columnsWidthState' =
                   [columnsWidthState EXCEPT
                       !.start = DragStartSnapshot(cell, columnsWidthState)]
            /\ windowListeners' = windowListeners \cup
                   (IF event.class = "mouse"
                    THEN {<<"mousemove", cell>>, <<"mouseup", cell>>}
                    ELSE {<<"touchmove", cell>>, <<"touchend", cell>>})
            /\ lastEvent' = NoEvent
            /\ gesture' = IF IsFlatHeaderCell(cell)
                          THEN <<"drag", cell, columnsWidthState.current[cell],
                                 getDragXPos(event)>>
                          ELSE NoGesture
            /\ UNCHANGED nodeForId
    /\ UNCHANGED filterVars

\* the width dragMove computes for a member of a group header cell
GroupMoveWidth(startWidth, deltaWidth, totalStartWidth) ==
    Max0(Add(startWidth, Mul(deltaWidth, Div(startWidth, totalStartWidth))))

\* the width dragMove computes for a flat header cell
FlatMoveWidth(startWidth, deltaWidth) == Max0(Add(startWidth, deltaWidth))

\* a dragMove that takes a missing start width for zero instead of skipping it
DragMoveCurrent_UnsetAsZero(cell, state, deltaWidth) ==
    [id \in ColumnIds |->
        IF id \in IdSet(cell)
        THEN FlatMoveWidth(IF IsUndefined(state.start[id]) THEN Num(0)
                           ELSE state.start[id], deltaWidth)
        ELSE state.current[id]]

\* a dragMove that adds the delta to the live width instead of the snapshot
DragMoveCurrent_Incremental(cell, state, deltaWidth) ==
    [id \in ColumnIds |->
        IF id \in IdSet(cell) /\ ~IsUndefined(state.start[id])
        THEN IF IsGroupHeaderCell(cell)
             THEN GroupMoveWidth(state.current[id], deltaWidth,
                      sum([i \in 1..Len(CellIds(cell)) |-> state.current[CellIds(cell)[i]]]))
             ELSE FlatMoveWidth(state.current[id], deltaWidth)
        ELSE state.current[id]]

\* the current map written by dragMove's columnsWidthState.update
DragMoveCurrent(cell, state, deltaWidth) ==
    IF IsGroupHeaderCell(cell)
    THEN LET ids == CellIds(cell)
             totalStartWidth == sum([i \in 1..Len(ids) |-> state.start[ids[i]]])
         IN  [id \in ColumnIds |->
                 IF id \in IdSet(cell) /\ ~IsUndefined(state.start[id])
                 THEN GroupMoveWidth(state.start[id], deltaWidth, totalStartWidth)
                 ELSE state.current[id]]
    ELSE [id \in ColumnIds |->
             IF id = cell /\ ~IsUndefined(state.start[id])
             THEN FlatMoveWidth(state.start[id], deltaWidth)
             ELSE state.current[id]]

\* dragMove(event) of the hook of `cell`, called as a window listener
DragMove(cell, event) ==
    /\ <<MoveType(event.class), cell>> \in windowListeners
    /\ LET deltaWidth == Sub(getDragXPos(event), dragStartXPosForId[cell])
       IN  columnsWidthState' =
               [columnsWidthState EXCEPT
                   !.current = DragMoveCurrent(cell, columnsWidthState, deltaWidth)]
    /\ lastEvent' = [NoEvent EXCEPT !.op = "dragMove", !.cell = cell, !.x = event.x]
    /\ gesture' = IF gesture # NoGesture /\ gesture[2] = cell THEN gesture ELSE NoGesture
    /\ UNCHANGED <<dragStartXPosForId, nodeForId, windowListeners, dragCount>>
    /\ UNCHANGED filterVars

\* a dragEnd that writes the rendered width of every affected id, node or not
DragEndCurrent_NoNodeTest(cell, current, nodes, rendered) ==
    [id \in ColumnIds |->
        IF id \in IdSet(cell) THEN Num(rendered[id]) ELSE current[id]]

\* a dragEnd that resyncs only the node stored under the cell's own id
DragEndCurrent_OwnIdOnly(cell, current, nodes, rendered) ==
    [id \in ColumnIds |->
        IF id = cell /\ ~IsUndefined(nodes[id]) THEN Num(rendered[id]) ELSE current[id]]

\* the columnWidths written by dragEnd: one update per affected id with a node;
\* rendered[id] is the clientWidth the node of id reports
DragEndCurrent(cell, current, nodes, rendered) ==
    [id \in ColumnIds |->
        IF id \in IdSet(cell) /\ ~IsUndefined(nodes[id])
        THEN Num(rendered[id])
        ELSE current[id]]

\* dragEnd(event) of the hook of `cell`, called as a window listener
DragEnd(cell, event, rendered) ==
    /\ <<EndType(event.class), cell>> \in windowListeners
    /\ columnsWidthState' =
           [columnsWidthState EXCEPT
               !.current = DragEndCurrent(cell, columnsWidthState.current,
                                          nodeForId, rendered)]
    /\ windowListeners' = windowListeners \
           (IF event.class = "mouse"
            THEN {<<"mousemove", cell>>, <<"mouseup", cell>>}
            ELSE {<<"touchmove", cell>>, <<"touchend", cell>>})
    /\ lastEvent' = [NoEvent EXCEPT !.op = "dragEnd", !.cell = cell,
                                    !.rendered = rendered]
    /\ gesture' = NoGesture
    /\ UNCHANGED <<dragStartXPosForId, nodeForId, dragCount>>
    /\ UNCHANGED filterVars

\* action(node): the header cell's node is mounted; w is node.clientWidth
Mount(cell, w) ==
    /\ IsUndefined(nodeForId[cell])
    /\ nodeForId' = [nodeForId EXCEPT ![cell] = Node(cell)]
    /\ columnsWidthState' =
           IF IsFlatHeaderCell(cell)
           THEN [columnsWidthState EXCEPT !.current[cell] = Num(w)]
           ELSE columnsWidthState
    /\ lastEvent' = NoEvent
    /\ gesture' = NoGesture
    /\ UNCHANGED <<dragStartXPosForId, windowListeners, dragCount>>
    /\ UNCHANGED filterVars

\* destroy(): the header cell's node is unmounted
Unmount(cell) ==
    /\ ~IsUndefined(nodeForId[cell])
    /\ nodeForId' = [nodeForId EXCEPT ![cell] = Undefined]
    /\ lastEvent' = NoEvent
    /\ gesture' = NoGesture
    /\ UNCHANGED <<columnsWidthState, dragStartXPosForId, windowListeners, dragCount>>
    /\ UNCHANGED filterVars

\* the clientWidth values the nodes report to one dragEnd: only the nodes it reads
RenderedFor(cell) ==
    {r \in [ColumnIds -> ClientWidths] :
        \A id \in ColumnIds :
            (id \notin IdSet(cell) \/ IsUndefined(nodeForId[id])) => r[id] = 0}

ResizeStep(startClasses, pointerClasses, maxDrags) ==
    \/ \E cell \in HeaderCells, class \in startClasses, x \in Coords :
           /\ dragCount < maxDrags
           /\ DragStart(cell, [class |-> class, x |-> x], FALSE)
    \/ \E cell \in HeaderCells :
           DragStart(cell, [class |-> "other", x |-> 0], TRUE)
    \/ \E cell \in HeaderCells, class \in pointerClasses, x \in Coords :
           DragMove(cell, [class |-> class, x |-> x])
    \/ \E cell \in HeaderCells, class \in pointerClasses :
           \E rendered \in RenderedFor(cell) :
               DragEnd(cell, [class |-> class, x |-> 0], rendered)
    \/ \E cell \in HeaderCells :
           \E w \in (IF IsFlatHeaderCell(cell) THEN ClientWidths ELSE {0}) :
               Mount(cell, w)
    \/ \E cell \in HeaderCells : Unmount(cell)

\* every header cell is dragged with the mouse
NextResize == ResizeStep({"mouse"}, {"mouse"}, MaxDrags)

\* the clientWidth values of one dragEnd when every node it reads is 2 wide
WideRendered(cell) ==
    [id \in ColumnIds |->
        IF id \in IdSet(cell) /\ ~IsUndefined(nodeForId[id]) THEN 2 ELSE 0]

\* header cells are dragged with a mouse, by touch and by events of other
\* classes, at most maxDrags times; every node is 1 wide when mounted, every
\* drag starts at coordinate 0
PointerStep(maxDrags) ==
    \/ \E cell \in HeaderCells, class \in EventClasses :
           /\ dragCount < maxDrags
           /\ DragStart(cell, [class |-> class, x |-> 0], FALSE)
    \/ \E cell \in HeaderCells, class \in PointerClasses, x \in Coords :
           DragMove(cell, [class |-> class, x |-> x])
    \/ \E cell \in HeaderCells, class \in PointerClasses :
           DragEnd(cell, [class |-> class, x |-> 0], WideRendered(cell))
    \/ \E cell \in HeaderCells : Mount(cell, 1)
    \/ \E cell \in HeaderCells : Unmount(cell)

NextPointers == PointerStep(MaxPointerDrags)

(***************************************************************************)
(* Table filter: useTableFilter, getFilteredRows, textPrefixFilter.        *)
(*                                                                         *)
(* Strings are sequences of one-character strings.  A cell value is        *)
(* <<"string", s>>, <<"number", n>> or <<"undefined">> (a display cell     *)
(* carries no value).                                                      *)
(***************************************************************************)
MaxRows == 3

Str(s) == <<"string", s>>
Number(n) == <<"number", n>>

DigitChars == <<"0", "1", "2", "3", "4", "5", "6", "7", "8", "9">>
RECURSIVE Digits(_)
Digits(n) ==
    IF n < 10 THEN <<DigitChars[n + 1]>>
    ELSE Append(Digits(n \div 10), DigitChars[(n % 10) + 1])

\* String(value)
String(value) ==
    IF value[1] = "string" THEN value[2]
    ELSE IF value[1] = "number" THEN Digits(value[2])
    ELSE <<"u", "n", "d", "e", "f", "i", "n", "e", "d">>

LowerChar(ch) ==
    CASE ch = "A" -> "a"
      [] ch = "B" -> "b"
      [] ch = "L" -> "l"
      [] OTHER -> ch
toLowerCase(s) == [i \in 1..Len(s) |-> LowerChar(s[i])]
startsWith(s, prefix) ==
    /\ Len(prefix) <= Len(s)
    /\ SubSeq(s, 1, Len(prefix)) = prefix

\* textPrefixFilter({ filterValue, value })
textPrefixFilter(fv, value) ==
    IF fv = <<>> THEN TRUE
    ELSE startsWith(toLowerCase(value), toLowerCase(fv))

\* fn of the plugin configuration: the default
fn(fv, value) == textPrefixFilter(fv, value)

\* initialFilterValue of the plugin configuration: the default ''
initialFilterValue == <<>>

ColumnSeq == <<"name", "age">>
Columns == {"name", "age"}

\* the data items rows are made of
Items ==
    { [name |-> Str(<<"A", "l", "i", "c", "e">>), age |-> Number(30)],
      [name |-> Str(<<"B", "o", "b">>), age |-> Number(41)] }

\* the filter values written
FilterValues == { <<>>, <<"a", "L">>, <<"3">> }

\* how a column is set up: a plain data column, one with exclude: true, one
\* hidden from display, a display (value-less) column, or a data column with
\* getFilterValue: (value) => String(value).slice(1)
ColumnSetups == {"plain", "exclude", "hidden", "display", "extractor"}

\* columnOptions[id]: TableFilterColumnOptions of the column
columnOptions ==
    [id \in Columns |->
        [exclude |-> columnSetup[id] = "exclude",
         getFilterValue |-> IF columnSetup[id] = "extractor" THEN "slice1"
                            ELSE "undefined"]]

\* options.getFilterValue(value)
ApplyGetFilterValue(name, value) ==
    LET s == String(value)
    IN  Str(IF s = <<>> THEN <<>> ELSE Tail(s))

\* cell.rowColId()
rowColId(cell) == <<cell.row, cell.id>>

\* a body row of the table: its cells follow the column setup
BodyRow(id, item, setup, hasSubRows, subRows) ==
    [id |-> id,
     cellForId |->
         [c \in Columns |->
             [id |-> c, row |-> id,
              kind |-> IF setup[c] = "display" THEN "display" ELSE "data",
              value |-> IF setup[c] = "display" THEN Undefined ELSE item[c]]],
     cells |-> SelectSeq(ColumnSeq, LAMBDA c : setup[c] # "hidden"),
     hasSubRows |-> hasSubRows,
     subRows |-> subRows]

\* getCloned(row, { subRows })
getCloned(row, subRows) == [row EXCEPT !.hasSubRows = TRUE, !.subRows = subRows]

\* a match map that holds an entry of an earlier recomputation
StaleMatches == <<3, "name">> :> TRUE

\* tableCellMatches.set({})
EmptyMatches == [k \in {} |-> TRUE]

\* tableCellMatches.update(m => ({ ...m, [key]: matches }))
SetMatch(m, key, matches) == (key :> matches) @@ m

\* as CellMatch, but a hidden cell is evaluated whatever includeHidden is
CellMatch_HiddenIncluded(row, cell, fv, options, includeHidden) ==
    IF options[cell.id].exclude
    THEN [matches |-> FALSE, recorded |-> FALSE]
    ELSE IF cell.kind # "data"
    THEN [matches |-> FALSE, recorded |-> FALSE]
    ELSE LET value == IF options[cell.id].getFilterValue # "undefined"
                      THEN ApplyGetFilterValue(
                               options[cell.id].getFilterValue, cell.value)
                      ELSE cell.value
         IN  [matches |-> fn(fv, String(value)), recorded |-> TRUE]

\* one cell of the rowCellMatches map: [matches, recorded]
CellMatch(row, cell, fv, options, includeHidden) ==
    IF options[cell.id].exclude
    THEN [matches |-> FALSE, recorded |-> FALSE]
    ELSE LET isHidden == \A i \in 1..Len(row.cells) : row.cells[i] # cell.id
         IN  IF isHidden /\ ~includeHidden
             THEN [matches |-> FALSE, recorded |-> FALSE]
             ELSE IF cell.kind # "data"
             THEN [matches |-> FALSE, recorded |-> FALSE]
             ELSE LET value == IF options[cell.id].getFilterValue # "undefined"
                               THEN ApplyGetFilterValue(
                                        options[cell.id].getFilterValue, cell.value)
                               ELSE cell.value
                  IN  [matches |-> fn(fv, String(value)), recorded |-> TRUE]

\* rowCellMatches of a row: the cells of cellForId in order; k cells done
RECURSIVE RowCellMatches(_, _, _, _, _, _)
RowCellMatches(row, k, fv, options, includeHidden, m) ==
    IF k = 0 THEN [results |-> <<>>, matches |-> m]
    ELSE LET prev == RowCellMatches(row, k - 1, fv, options, includeHidden, m)
             cell == row.cellForId[ColumnSeq[k]]
             r == CellMatch(row, cell, fv, options, includeHidden)
         IN  [results |-> Append(prev.results, r.matches),
              matches |-> IF r.recorded
                          THEN SetMatch(prev.matches, rowColId(cell), r.matches)
                          ELSE prev.matches]

\* as HasRemainingSubRows, but a row is never kept for its sub-rows
HasRemainingSubRows_Never(row) == FALSE

\* (row.subRows?.length ?? 0) !== 0
HasRemainingSubRows(row) == row.hasSubRows /\ Len(row.subRows) # 0

RECURSIVE getFilteredRows(_, _, _, _, _)
RECURSIVE MapSubRows(_, _, _, _, _, _)
RECURSIVE FilterMapped(_, _, _, _, _, _)

\* as MapSubRows, but a row without subRows is cloned too
RECURSIVE MapSubRows_CloneAll(_, _, _, _, _, _)
MapSubRows_CloneAll(rs, k, fv, options, includeHidden, m) ==
    IF k = 0 THEN [rows |-> <<>>, matches |-> m]
    ELSE LET prev == MapSubRows_CloneAll(rs, k - 1, fv, options, includeHidden, m)
             sub == getFilteredRows(rs[k].subRows, fv, options, includeHidden,
                                    prev.matches)
         IN  [rows |-> Append(prev.rows, getCloned(rs[k], sub.rows)),
              matches |-> sub.matches]

\* the .map step over the first k rows: sub-rows filtered, the row cloned
MapSubRows(rs, k, fv, options, includeHidden, m) ==
    IF k = 0 THEN [rows |-> <<>>, matches |-> m]
    ELSE LET prev == MapSubRows(rs, k - 1, fv, options, includeHidden, m)
             row == rs[k]
         IN  IF ~row.hasSubRows
             THEN [rows |-> Append(prev.rows, row), matches |-> prev.matches]
             ELSE LET sub == getFilteredRows(row.subRows, fv, options, includeHidden,
                                             prev.matches)
                  IN  [rows |-> Append(prev.rows, getCloned(row, sub.rows)),
                       matches |-> sub.matches]

\* the .filter step over the first k mapped rows
FilterMapped(rs, k, fv, options, includeHidden, m) ==
    IF k = 0 THEN [rows |-> <<>>, matches |-> m]
    ELSE LET prev == FilterMapped(rs, k - 1, fv, options, includeHidden, m)
             row == rs[k]
         IN  IF HasRemainingSubRows(row)
             THEN [rows |-> Append(prev.rows, row), matches |-> prev.matches]
             ELSE LET cells == RowCellMatches(row, Len(ColumnSeq), fv, options,
                                              includeHidden, prev.matches)
                  IN  [rows |-> IF \E i \in 1..Len(cells.results) : cells.results[i]
                                THEN Append(prev.rows, row)
                                ELSE prev.rows,
                       matches |-> cells.matches]

\* as getFilteredRows, but the first row of every level is passed over
getFilteredRows_PastFirst(rs, fv, options, includeHidden, m) ==
    IF rs = <<>> THEN [rows |-> <<>>, matches |-> m]
    ELSE LET mapped == MapSubRows(Tail(rs), Len(rs) - 1, fv, options, includeHidden, m)
         IN  FilterMapped(mapped.rows, Len(mapped.rows), fv, options, includeHidden,
                          mapped.matches)

\* getFilteredRows(rows, filterValue, columnOptions, { tableCellMatches, fn,
\* includeHiddenColumns }): [rows: the filtered rows, matches: the match map after]
getFilteredRows(rs, fv, options, includeHidden, m) ==
    LET mapped == MapSubRows(rs, Len(rs), fv, options, includeHidden, m)
    IN  FilterMapped(mapped.rows, Len(mapped.rows), fv, options, includeHidden,
                     mapped.matches)

\* the rows of a row tree at every level
RECURSIVE AllRows(_)
AllRows(rs) ==
    UNION {{rs[i]} \cup AllRows(rs[i].subRows) : i \in 1..Len(rs)}

\* as MatchesProp, but the filter value is not looked at
MatchesProp_AnyFilterValue(fv, m, key) ==
    [matches |-> IF key \in DOMAIN m THEN m[key] ELSE FALSE]

\* the 'tbody.tr.td' hook: the props derived from filterValue and tableCellMatches
MatchesProp(fv, m, key) ==
    [matches |-> fv # <<>> /\ (IF key \in DOMAIN m THEN m[key] ELSE FALSE)]

\* the body cells on display: the visible cells of the filtered rows
RenderedCells(rs) ==
    UNION {{<<row.id, row.cells[i]>> : i \in 1..Len(row.cells)} : row \in AllRows(rs)}

\* what one run of the derived store of deriveRows leaves in the stores
Derived(rs, fv, options, includeHidden) ==
    LET result == getFilteredRows(rs, fv, options, includeHidden, EmptyMatches)
    IN  [preFilteredRows |-> rs,
         tableCellMatches |-> result.matches,
         filteredRows |-> result.rows,
         bodyCellProps |-> [key \in RenderedCells(result.rows) |->
                               MatchesProp(fv, result.matches, key)]]

\* the shapes of the row trees given to the plugin: n rows with ids 1..n, the
\* parent of each (0: a root), the item of each, and whether childless rows
\* carry an empty subRows array
Shapes(maxRows) ==
    UNION {[n : {n},
            parent : {f \in [1..n -> 0..maxRows] : \A i \in 1..n : f[i] < i},
            item : [1..n -> Items],
            emptyArrays : IF n = 0 THEN {FALSE} ELSE BOOLEAN] : n \in 0..maxRows}

\* the row trees the table is created over, and those its data is replaced by
InitialShapes == Shapes(MaxRows)
NewShapes == Shapes(1)

RECURSIVE RowsOf(_, _, _, _)
RowsOf(shape, setup, p, k) ==
    IF k = 0 THEN <<>>
    ELSE LET prev == RowsOf(shape, setup, p, k - 1)
         IN  IF shape.parent[k] # p THEN prev
             ELSE LET subRows == RowsOf(shape, setup, k, shape.n)
                  IN  Append(prev,
                             BodyRow(k, shape.item[k], setup,
                                     subRows # <<>> \/ shape.emptyArrays, subRows))

InitFilter ==
    /\ columnSetup \in [Columns -> ColumnSetups]
    /\ includeHiddenColumns \in BOOLEAN
    /\ filterValue = initialFilterValue
    /\ \E shape \in InitialShapes :
           rows = RowsOf(shape, columnSetup, 0, shape.n)
    /\ \E d \in {Derived(rows, filterValue, columnOptions, includeHiddenColumns)} :
           /\ preFilteredRows = d.preFilteredRows
           /\ tableCellMatches = d.tableCellMatches
           /\ filteredRows = d.filteredRows
           /\ bodyCellProps = d.bodyCellProps

\* the callback of derived([rows, filterValue], ...) runs on the new values
DeriveRows(rs, fv) ==
    \E d \in {Derived(rs, fv, columnOptions, includeHiddenColumns)} :
        /\ preFilteredRows' = d.preFilteredRows
        /\ tableCellMatches' = d.tableCellMatches
        /\ filteredRows' = d.filteredRows
        /\ bodyCellProps' = d.bodyCellProps

\* filterValue.set(value)
SetFilterValue(value) ==
    /\ value # filterValue
    /\ filterValue' = value
    /\ DeriveRows(rows, value)
    /\ UNCHANGED <<columnSetup, includeHiddenColumns, rows>>
    /\ UNCHANGED resizeVars

\* the rows store given to deriveRows emits new rows
SetRows(shape) ==
    /\ rows' = RowsOf(shape, columnSetup, 0, shape.n)
    /\ DeriveRows(rows', filterValue)
    /\ UNCHANGED <<columnSetup, includeHiddenColumns, filterValue>>
    /\ UNCHANGED resizeVars

NextFilter ==
    \/ \E value \in FilterValues : SetFilterValue(value)
    \/ \E shape \in NewShapes : SetRows(shape)

\* a table without rows, whose filter is never written
NoFilter ==
    /\ columnSetup = [c \in Columns |-> "plain"]
    /\ includeHiddenColumns = FALSE
    /\ rows = <<>>
    /\ filterValue = <<>>
    /\ preFilteredRows = <<>>
    /\ filteredRows = <<>>
    /\ tableCellMatches = EmptyMatches
    /\ bodyCellProps = EmptyMatches

vars == <<resizeVars, filterVars>>

\* header cells are resized; every header cell is dragged with the mouse
Init == InitResize /\ NoFilter
Spec == Init /\ [][NextResize]_vars

\* header cells are resized with pointers of every device class
SpecPointers == Init /\ [][NextPointers]_vars

\* the table is filtered
InitFiltered == InitFilter /\ InitResize
SpecFilter == InitFiltered /\ [][NextFilter]_vars

(***************************************************************************)
(* Header attributes: the attrs store of the 'thead.tr.th' hook.           *)
(*                                                                         *)
(* The text of a number is its decimal digits; a number n/d that is not an *)
(* integer is written n/d, its decimal expansion being outside the model.  *)
(***************************************************************************)
SignedDigits(n) == IF n < 0 THEN <<"-">> \o Digits(-n) ELSE Digits(n)

\* `${width}`
NumberText(width) ==
    IF width = NaN THEN <<"N", "a", "N">>
    ELSE IF IsInf(width)
    THEN (IF width[2] < 0 THEN <<"-">> ELSE <<>>)
             \o <<"I", "n", "f", "i", "n", "i", "t", "y">>
    ELSE IF width[3] = 1 THEN SignedDigits(width[2])
    ELSE SignedDigits(width[2]) \o <<"/">> \o Digits(width[3])

\* `${width}px`
WidthPx(width) == NumberText(width) \o <<"p", "x">>

\* $columnWidths[cell.id]
WidthOf(cell) ==
    IF cell \in DOMAIN columnsWidthState.current
    THEN columnsWidthState.current[cell]
    ELSE Undefined

NoAttrs == <<>>

\* as attrs, but min-width is left at zero
attrs_ZeroMinWidth(cell) ==
    IF IsUndefined(WidthOf(cell)) THEN NoAttrs
    ELSE [a \in {"style"} |->
             [k \in {"width", "min-width", "max-width", "box-sizing"} |->
                 IF k = "box-sizing" THEN <<"border-box">>
                 ELSE IF k = "min-width" THEN WidthPx(Num(0))
                 ELSE WidthPx(WidthOf(cell))]]

\* the value of the attrs store derived from columnWidths for a header cell
attrs(cell) ==
    LET width == WidthOf(cell)
    IN  IF IsUndefined(width) THEN NoAttrs
        ELSE LET widthPx == WidthPx(width)
             IN  [a \in {"style"} |->
                     [k \in {"width", "min-width", "max-width", "box-sizing"} |->
                         IF k = "box-sizing" THEN <<"border-box">> ELSE widthPx]]

(***************************************************************************)
(* Properties of column resizing.                                          *)
(***************************************************************************)
current == columnsWidthState.current
start == columnsWidthState.start

IsNegative(v) == (IsNum(v) \/ IsInf(v)) /\ v[2] < 0

AfterDragMove == lastEvent.op = "dragMove"
AfterGroupDragMove == AfterDragMove /\ IsGroupHeaderCell(lastEvent.cell)
AfterDragEnd == lastEvent.op = "dragEnd"

\* the delta d = x - x0 of the drag-move that ran last
LastDelta == Sub(Num(lastEvent.x), dragStartXPosForId[lastEvent.cell])

\* the members of the dragged group whose start width was snapshotted
Snapshotted(cell) == {id \in IdSet(cell) : ~IsUndefined(start[id])}

RECURSIVE SumOver(_, _)
SumOver(f, ids) ==
    IF ids = {} THEN Num(0)
    ELSE LET id == CHOOSE i \in ids : TRUE
         IN  Add(f[id], SumOver(f, ids \ {id}))

\* S: the sum of the snapshotted members' start widths
StartTotal(cell) == SumOver(start, Snapshotted(cell))

\* wi + d*wi/S
Proportional(wi, d, S) == Add(wi, Div(Mul(d, wi), S))

\* C1 (as claimed): after a drag-move with delta d on a group header cell, every
\* member whose start width wi was snapshotted has the width
\* current[i] = max(0, wi + d*wi/S), a number, S being the sum of the members'
\* start widths.
C1_GroupProportional ==
    AfterGroupDragMove =>
        \A id \in Snapshotted(lastEvent.cell) :
            /\ IsNum(current[id])
            /\ current[id] =
                   Max0(Proportional(start[id], LastDelta, StartTotal(lastEvent.cell)))

\* C2: no width written to current by a drag-move is negative, whatever the
\* sign and size of the delta.
C2_ResizeFloor ==
    AfterDragMove =>
        \A id \in Snapshotted(lastEvent.cell) : ~IsNegative(current[id])

\* a drag-move on a group whose delta is more negative than a member's share
\* allows: the member's width was clamped at zero
C2_Witness ==
    /\ AfterGroupDragMove
    /\ \E id \in Snapshotted(lastEvent.cell) :
           /\ IsNum(start[id]) /\ start[id][2] > 0
           /\ IsNegative(Proportional(start[id], LastDelta, StartTotal(lastEvent.cell)))
           /\ current[id] = Num(0)

\* C3: after drag-end on a header cell, every affected column id that has a node
\* holds that node's rendered width, whatever the drag-moves computed.
C3_DragEndResync ==
    AfterDragEnd =>
        \A id \in IdSet(lastEvent.cell) :
            ~IsUndefined(nodeForId[id]) => current[id] = Num(lastEvent.rendered[id])

\* a drag-end on the group with both member nodes mounted, whose resync left
\* widths that differ from the snapshot the drag started from
C3_Witness ==
    /\ AfterDragEnd
    /\ IsGroupHeaderCell(lastEvent.cell)
    /\ \A id \in IdSet(lastEvent.cell) :
           /\ ~IsUndefined(nodeForId[id])
           /\ IsNum(start[id])
           /\ current[id] # start[id]

\* C9 (as claimed): after a drag-move with delta d on a group whose members all
\* have start widths, summing to S, and none of whose widths is clamped at zero,
\* the members' current widths sum to S + d.
C9_GroupTotalConserved ==
    LET cell == lastEvent.cell
        S == StartTotal(cell)
    IN  ( /\ AfterGroupDragMove
          /\ \A id \in IdSet(cell) : IsNum(start[id])
          /\ \A id \in IdSet(cell) :
                 ~IsNegative(Proportional(start[id], LastDelta, S)) )
        => SumOver(current, IdSet(cell)) = Add(S, LastDelta)

\* C10: after a drag-start on a flat header cell that held the width w, at
\* coordinate x0, followed only by drag-moves of that cell, current[id] is
\* max(0, w + (x - x0)) for the latest coordinate x, and w again when x = x0.
C10_FlatDragRelative ==
    ( /\ gesture # NoGesture
      /\ AfterDragMove
      /\ ~IsUndefined(gesture[3]) )
    => LET w == gesture[3]
           x0 == gesture[4]
           x == Num(lastEvent.x)
       IN  /\ lastEvent.cell = gesture[2]
           /\ current[gesture[2]] = Max0(Add(w, Sub(x, x0)))
           /\ x = x0 => current[gesture[2]] = w

\* drag-moves of a flat cell have left a width that differs from w
C10_Witness ==
    /\ gesture # NoGesture
    /\ AfterDragMove
    /\ IsNum(gesture[3])
    /\ Num(lastEvent.x) # gesture[4]
    /\ current[gesture[2]] # gesture[3]

ListenerPair(cell, class) ==
    IF class = "mouse"
    THEN {<<"mousemove", cell>>, <<"mouseup", cell>>}
    ELSE {<<"touchmove", cell>>, <<"touchend", cell>>}

\* the move and end listeners of a header cell still registered on the window
ListenersOf(cell) == {l \in windowListeners : l[2] = cell}

\* C12 (as claimed): mounting a flat header cell sets current[id] to the node's
\* rendered width if current[id] is not set, and leaves current[id] unchanged
\* if it already holds a width; mounting a group header cell changes no width.
C12_MountSeedsWhenUnset ==
    [][\A cell \in HeaderCells, w \in ClientWidths :
           Mount(cell, w) =>
               /\ nodeForId'[cell] = Node(cell)
               /\ start' = start
               /\ \A id \in ColumnIds :
                      current'[id] =
                          IF id = cell /\ IsFlatHeaderCell(cell) /\ IsUndefined(current[id])
                          THEN Num(w)
                          ELSE current[id]]_vars

\* C13 (as claimed): drag-start registers the move/end listener pair of the
\* initiating device class (the mouse pair for a mouse event, the touch pair
\* otherwise), and whatever drag-starts a header cell has seen, once a drag-end
\* was handled for the cell none of its move or end listeners remains
\* registered.
C13_ListenerLifecycle ==
    /\ [][\A cell \in HeaderCells, class \in EventClasses :
              DragStart(cell, [class |-> class, x |-> 0], FALSE) =>
                  windowListeners' = windowListeners \cup ListenerPair(cell, class)]_vars
    /\ [](AfterDragEnd => ListenersOf(lastEvent.cell) = {})

\* the number a text of digits denotes
RECURSIVE DigitsValue(_)
DigitsValue(text) ==
    IF text = <<>> THEN 0
    ELSE LET last == text[Len(text)]
             d == CHOOSE i \in 0..9 : DigitChars[i + 1] = last
         IN  10 * DigitsValue(SubSeq(text, 1, Len(text) - 1)) + d

\* the width a text denotes
TextValue(text) ==
    IF text = <<"N", "a", "N">> THEN NaN
    ELSE IF text = <<"I", "n", "f", "i", "n", "i", "t", "y">> THEN Infinity(1)
    ELSE IF text = <<"-", "I", "n", "f", "i", "n", "i", "t", "y">> THEN Infinity(-1)
    ELSE LET neg == text[1] = "-"
             body == IF neg THEN Tail(text) ELSE text
             slashes == {i \in 1..Len(body) : body[i] = "/"}
             n == IF slashes = {} THEN DigitsValue(body)
                  ELSE DigitsValue(SubSeq(body, 1, (CHOOSE i \in slashes : TRUE) - 1))
             d == IF slashes = {} THEN 1
                  ELSE DigitsValue(SubSeq(body, (CHOOSE i \in slashes : TRUE) + 1, Len(body)))
         IN  Rat(IF neg THEN -n ELSE n, d)

\* the text is the width followed by the unit px
IsPixels(text, width) ==
    /\ Len(text) > 2
    /\ SubSeq(text, Len(text) - 1, Len(text)) = <<"p", "x">>
    /\ TextValue(SubSeq(text, 1, Len(text) - 2)) = width

\* C14: in every reachable state the attrs of a header cell are a style with
\* width, min-width and max-width all current[cell.id] pixels and box-sizing
\* border-box when current[cell.id] is defined, and empty when it is not.
C14_HeaderAttrs ==
    \A cell \in HeaderCells :
        IF IsUndefined(WidthOf(cell))
        THEN DOMAIN attrs(cell) = {}
        ELSE /\ DOMAIN attrs(cell) = {"style"}
             /\ LET style == attrs(cell)["style"]
                IN  /\ DOMAIN style = {"width", "min-width", "max-width", "box-sizing"}
                    /\ style["box-sizing"] = <<"border-box">>
                    /\ \A k \in {"width", "min-width", "max-width"} :
                           IsPixels(style[k], WidthOf(cell))

\* after a drag-move on the group one column is a non-integer number of pixels
\* wide and styled so, while the group header cell itself has no attributes
C14_Witness ==
    /\ AfterGroupDragMove
    /\ \E id \in ColumnIds :
           /\ IsNum(current[id]) /\ current[id][3] # 1
           /\ DOMAIN attrs(id) = {"style"}
    /\ DOMAIN attrs("g") = {}

\* C16: a drag-move on a header cell changes current only for the cell's own
\* id (flat) or member ids (group) that have a start width; an id without a
\* start width is skipped, and every other entry of current and the whole
\* start map are left unchanged.
C16_DragMoveFrame ==
    [][\A cell \in HeaderCells, class \in PointerClasses, x \in Coords :
           ( /\ lastEvent'.op = "dragMove"
             /\ lastEvent'.cell = cell
             /\ lastEvent'.x = x
             /\ DragMove(cell, [class |-> class, x |-> x]) ) =>
               /\ start' = start
               /\ \A id \in ColumnIds :
                      (id \notin IdSet(cell) \/ IsUndefined(start[id]))
                          => current'[id] = current[id]]_vars

\* a drag-move on the group has run while one member had a start width and the
\* other, never mounted, had none and still has no width
C16_Witness ==
    /\ AfterGroupDragMove
    /\ \E id \in ColumnIds : ~IsUndefined(start[id]) /\ ~IsUndefined(current[id])
    /\ \E id \in ColumnIds : IsUndefined(start[id]) /\ IsUndefined(current[id])

\* C17: unmounting a header cell removes only its node association: widths,
\* start widths and listeners stay, so the drag-moves of a drag in progress go
\* on; and a drag-end leaves current[id] as the drag-moves left it for every
\* affected id without a node, while it removes the listeners of its class.
C17_UnmountDuringDrag ==
    /\ [][\A cell \in HeaderCells :
              Unmount(cell) =>
                  /\ nodeForId' = [nodeForId EXCEPT ![cell] = Undefined]
                  /\ columnsWidthState' = columnsWidthState
                  /\ windowListeners' = windowListeners]_vars
    /\ [][\A cell \in HeaderCells, class \in PointerClasses :
              ( /\ lastEvent'.op = "dragEnd"
                /\ lastEvent'.cell = cell
                /\ DragEnd(cell, [class |-> class, x |-> 0], lastEvent'.rendered) ) =>
                  /\ \A id \in IdSet(cell) :
                         IsUndefined(nodeForId[id]) => current'[id] = current[id]
                  /\ windowListeners' \cap ListenerPair(cell, class) = {}]_vars

\* a flat header cell was unmounted during its drag: after the drag-end it has
\* no node, no listener, and the width the drag-moves computed, which is not
\* the width the drag started from
C17_Witness ==
    /\ AfterDragEnd
    /\ IsFlatHeaderCell(lastEvent.cell)
    /\ IsUndefined(nodeForId[lastEvent.cell])
    /\ ListenersOf(lastEvent.cell) = {}
    /\ IsNum(start[lastEvent.cell])
    /\ IsNum(current[lastEvent.cell])
    /\ current[lastEvent.cell] # start[lastEvent.cell]

\* C19 (as claimed): after any sequence of mounts, drag-starts, drag-moves,
\* drag-ends and unmounts on flat and group header cells, every entry of
\* current is a well-defined non-negative number: never NaN from arithmetic on
\* a missing start width or from a division by a zero group total.
C19_WidthsWellDefined ==
    \A id \in ColumnIds :
        IsUndefined(current[id]) \/ (IsNum(current[id]) /\ current[id][2] >= 0)

(***************************************************************************)
(* Properties of the table filter.                                         *)
(***************************************************************************)
RowIds(rs) == {row.id : row \in AllRows(rs)}

\* the rows below a row, at every depth
Descendants(row) == AllRows(row.subRows)

IsVisible(row, id) == \E i \in 1..Len(row.cells) : row.cells[i] = id

\* the text the predicate is given for a data cell
FilterText(cell) ==
    IF columnSetup[cell.id] = "extractor"
    THEN Tail(String(cell.value))
    ELSE String(cell.value)

\* the cell is evaluated: its column is not excluded, it is visible or hidden
\* columns are included, and it is a data cell
Evaluable(row, id) ==
    /\ columnSetup[id] # "exclude"
    /\ IsVisible(row, id) \/ includeHiddenColumns
    /\ row.cellForId[id].kind = "data"

\* the cell is evaluable and the predicate accepts its (extracted) text
Accepted(row, id) ==
    /\ Evaluable(row, id)
    /\ textPrefixFilter(filterValue, FilterText(row.cellForId[id]))

Matching(row) == \E id \in Columns : Accepted(row, id)

\* none of the row's sub-rows is left in the filtered rows
NoRemainingSubRows(row) ==
    \A i \in 1..Len(row.subRows) : row.subRows[i].id \notin RowIds(filteredRows)

\* C4 (as claimed): with the empty filter value and the default predicate the
\* filtered rows are the input rows: same members, order and hierarchy.
C4_EmptyFilterIdentity ==
    filterValue = <<>> => filteredRows = rows

\* C5: a row with sub-rows none of whose own cells match, but with a matching
\* descendant, is retained with sub-rows left; and every row of the filtered
\* rows is a matching row or has a matching row below it.
C5_AncestorBubbling ==
    /\ \A row \in AllRows(rows) :
           (~Matching(row) /\ \E d \in Descendants(row) : Matching(d))
               => \E out \in AllRows(filteredRows) :
                      out.id = row.id /\ out.subRows # <<>>
    /\ \A out \in AllRows(filteredRows) :
           Matching(out) \/ \E d \in Descendants(out) : Matching(d)

\* a non-matching parent retained for one matching sub-row, another sub-row
\* pruned, under a non-empty filter value
C5_Witness ==
    /\ filterValue # <<>>
    /\ \E row \in AllRows(rows) :
           /\ ~Matching(row)
           /\ \E d \in Descendants(row) : Matching(d)
           /\ \E out \in AllRows(filteredRows) :
                  /\ out.id = row.id
                  /\ out.subRows # <<>>
                  /\ Len(out.subRows) < Len(row.subRows)

\* C6 (as claimed): after a filter pass the match map has an entry for every
\* evaluable cell of every input row at every level.
C6_MatchMapComplete ==
    \A row \in AllRows(rows) : \A id \in Columns :
        Evaluable(row, id) => <<row.id, id>> \in DOMAIN tableCellMatches

\* C7: a row with no remaining sub-rows is retained iff at least one of its
\* cells is on a non-excluded column, is visible or hidden columns are
\* included, is a data cell, and is accepted by the predicate.
C7_LeafRetention ==
    \A row \in AllRows(rows) :
        NoRemainingSubRows(row) =>
            (row.id \in RowIds(filteredRows) <=> Matching(row))

\* hidden columns are not included and a row is dropped although the predicate
\* accepts the text of its cell on a hidden column
C7_Witness ==
    /\ ~includeHiddenColumns
    /\ filterValue # <<>>
    /\ \E row \in AllRows(rows) :
           /\ NoRemainingSubRows(row)
           /\ row.id \notin RowIds(filteredRows)
           /\ \E id \in Columns :
                  /\ ~IsVisible(row, id)
                  /\ textPrefixFilter(filterValue, FilterText(row.cellForId[id]))

\* C8: the matches prop of a body cell is true iff the filter value is not
\* empty and the match map holds true for the cell; it is false under the
\* empty filter value whatever the match map holds.
C8_MatchesProp ==
    \A key \in DOMAIN bodyCellProps :
        /\ bodyCellProps[key].matches =
               ( /\ filterValue # <<>>
                 /\ key \in DOMAIN tableCellMatches
                 /\ tableCellMatches[key] )
        /\ filterValue = <<>> => ~bodyCellProps[key].matches

\* under the empty filter value a body cell whose map entry is true has the
\* prop false
C8_Witness ==
    /\ filterValue = <<>>
    /\ \E key \in DOMAIN bodyCellProps :
           /\ key \in DOMAIN tableCellMatches
           /\ tableCellMatches[key]
           /\ ~bodyCellProps[key].matches

\* the input row a row of the filtered rows stems from
InputRow(out) == CHOOSE in \in AllRows(rows) : in.id = out.id

\* the sub-rows of an input row as the filter leaves them
FilteredSubRows(in) ==
    getFilteredRows(in.subRows, filterValue, columnOptions, includeHiddenColumns,
                    EmptyMatches).rows

C18_MatchMapFresh ==
    \A key \in DOMAIN tableCellMatches :
        \E row \in AllRows(rows) :
            /\ row.id = key[1]
            /\ key[2] \in Columns
            /\ Evaluable(row, key[2])
            /\ tableCellMatches[key] =
                   textPrefixFilter(filterValue, FilterText(row.cellForId[key[2]]))

\* the filter value was written and the map holds accepted and rejected cells,
\* some of them of a row that was dropped
C18_Witness ==
    /\ filterValue # <<>>
    /\ \E key \in DOMAIN tableCellMatches : tableCellMatches[key]
    /\ \E key \in DOMAIN tableCellMatches :
           ~tableCellMatches[key] /\ key[1] \notin RowIds(filteredRows)

\* C20: the filter applied to its own output with the same filter value and
\* column options returns that output: the same rows, order and hierarchy.
C20_FilterIdempotent ==
    getFilteredRows(filteredRows, filterValue, columnOptions, includeHiddenColumns,
                    EmptyMatches).rows = filteredRows

\* the filter dropped some rows and kept others, a parent with one of its
\* sub-rows among them
C20_Witness ==
    /\ filteredRows # rows
    /\ \E out \in AllRows(filteredRows) :
           /\ out.subRows # <<>>
           /\ Len(out.subRows) < Len(InputRow(out).subRows)

====
